---------------------------- MODULE Spec2Model ----------------------------
(***************************************************************************)
(* authorize/data.py: CreditCard and BankAccount.  Both classes normalise  *)
(* their arguments in __init__ and then run validate(), which raises on    *)
(* the first failed check.  A Python string is a sequence of one-character *)
(* strings; a Python argument is None, a str or a non-negative int.        *)
(***************************************************************************)
EXTENDS Integers, Sequences, FiniteSets, TLC

VARIABLES
    now,     \* what datetime.now() returns: <<year, month, day, h, m, s, us>>
    ticks,   \* how many times the clock has advanced
    kind,    \* "card" or "bank": the class the caller instantiates
    args,    \* the caller's arguments to __init__
    obj,     \* the instance once __init__ has returned, NoObj otherwise
    result,  \* outcome of __init__: pending, ok, or the exception raised
    call,    \* outcome of the latest call on the instance after __init__
    at       \* the clock reading __init__ ran at, NoTime before it ran

vars == <<now, ticks, kind, args, obj, result, call, at>>

---------------------------------------------------------------------------
(* Bounds of the model. *)

\* Clock advances per behaviour.
MaxTicks == 2

\* Fields of the base bank account replaced at once by other values.
MaxDeviations == 2

---------------------------------------------------------------------------
(* Python values and the builtins data.py uses on them. *)

PyNone == [t |-> "None", s |-> <<>>, hi |-> 0, lo |-> 0]

PyStr(s) == [t |-> "str", s |-> s, hi |-> 0, lo |-> 0]

\* The int hi * 10^9 + lo, 0 <= lo < 10^9 (account numbers are up to 18
\* digits long).
PyInt(hi, lo) == [t |-> "int", s |-> <<>>, hi |-> hi, lo |-> lo]

DigitChars == <<"0", "1", "2", "3", "4", "5", "6", "7", "8", "9">>

IsDigit(c) == \E i \in 1..10 : DigitChars[i] = c

Letters ==
    {"a", "b", "c", "d", "e", "f", "g", "h", "i", "j", "k", "l", "m", "n",
     "o", "p", "q", "r", "s", "t", "u", "v", "w", "x", "y", "z",
     "A", "B", "C", "D", "E", "F", "G", "H", "I", "J", "K", "L", "M", "N",
     "O", "P", "Q", "R", "S", "T", "U", "V", "W", "X", "Y", "Z"}

IsAlnum(c) == IsDigit(c) \/ c \in Letters

IsSpace(c) == c \in {" ", "\t", "\n", "\r"}

\* int(c) for a one-character string that is a digit.
DigitVal(c) == (CHOOSE i \in 1..10 : DigitChars[i] = c) - 1

\* Decimal digits of a natural number, most significant first.
RECURSIVE Dec(_)
Dec(n) == IF n < 10 THEN <<DigitChars[n + 1]>>
          ELSE Append(Dec(n \div 10), DigitChars[(n % 10) + 1])

\* The low nine digits of an int that has more, zero-padded.
RECURSIVE ZeroPad(_, _)
ZeroPad(s, width) == IF Len(s) >= width THEN s ELSE ZeroPad(<<"0">> \o s, width)

\* str(v)
Str(v) ==
    CASE v.t = "None" -> <<"N", "o", "n", "e">>
      [] v.t = "str"  -> v.s
      [] v.t = "int"  -> IF v.hi = 0 THEN Dec(v.lo)
                         ELSE Dec(v.hi) \o ZeroPad(Dec(v.lo), 9)

\* re.sub(r'\D', '', s)
StripNonDigits(s) == SelectSeq(s, IsDigit)

\* re.sub(r'[^0-9A-Za-z]', '', s)
StripNonAlnum(s) == SelectSeq(s, IsAlnum)

\* s.strip() of a str
RECURSIVE LStrip(_)
LStrip(s) == IF s # <<>> /\ IsSpace(Head(s)) THEN LStrip(Tail(s)) ELSE s

RECURSIVE RStrip(_)
RStrip(s) == IF s # <<>> /\ IsSpace(s[Len(s)])
             THEN RStrip(SubSeq(s, 1, Len(s) - 1)) ELSE s

Strip(s) == RStrip(LStrip(s))

AllDigits(s) == \A i \in 1..Len(s) : IsDigit(s[i])

RECURSIVE DigitsValue(_)
DigitsValue(s) == IF s = <<>> THEN 0
                  ELSE 10 * DigitsValue(SubSeq(s, 1, Len(s) - 1))
                       + DigitVal(s[Len(s)])

\* int(s) of a str: surrounding whitespace and one sign are allowed, then
\* one or more digits; anything else raises ValueError.
IntBody(s) == LET u == Strip(s)
              IN  IF u # <<>> /\ Head(u) \in {"+", "-"} THEN Tail(u) ELSE u

IntParses(s) == IntBody(s) # <<>> /\ AllDigits(IntBody(s))

IntOf(s) == LET u == Strip(s)
                v == DigitsValue(IntBody(s))
            IN  IF u # <<>> /\ Head(u) = "-" THEN 0 - v ELSE v

\* map(int, s) of a str: one int per character
MapInt(s) == [i \in 1..Len(s) |-> DigitVal(s[i])]

RECURSIVE SumSeq(_)
SumSeq(q) == IF q = <<>> THEN 0 ELSE Head(q) + SumSeq(Tail(q))

\* num[start::-2] for start = -1 or -2: every second element, walking down
\* from the last (from = 0) or the one before it (from = 1).
RECURSIVE StrideDown(_, _)
StrideDown(num, from) ==
    IF Len(num) - from < 1 THEN <<>>
    ELSE <<num[Len(num) - from]>> \o StrideDown(num, from + 2)

---------------------------------------------------------------------------
(* Exceptions and outcomes. *)

Pending == [status |-> "pending", exc |-> "", msg |-> ""]

Ok == [status |-> "ok", exc |-> "", msg |-> ""]

Raised(exc, msg) == [status |-> "raised", exc |-> exc, msg |-> msg]

AuthorizeInvalidError(msg) == Raised("AuthorizeInvalidError", msg)

ValueError == Raised("ValueError", "")

NoObj == [class |-> "none"]

NoCall == [op |-> "none", outcome |-> Pending, value |-> <<>>]

---------------------------------------------------------------------------
(* CreditCard. *)

\* The issuer of each regular expression of CARD_TYPES, in source order.
CARD_TYPES == <<"visa", "amex", "mc", "discover", "diners">>

HasPrefix(s, p) == Len(s) >= Len(p) /\ SubSeq(s, 1, Len(p)) = p

\* re.match(CARD_TYPES[card_type], n): anchored at the start; the patterns
\* ending in $ must also reach the end of n, the discover pattern need not.
MatchVisa(n) == HasPrefix(n, <<"4">>) /\ AllDigits(n) /\ Len(n) \in {13, 16}

MatchAmex(n) == HasPrefix(n, <<"3", "7">>) /\ AllDigits(n) /\ Len(n) = 15

MatchMc(n) ==
    /\ Len(n) = 16
    /\ n[1] = "5"
    /\ n[2] \in {"1", "2", "3", "4", "5"}
    /\ AllDigits(n)

MatchDiscover(n) ==
    /\ Len(n) >= 16
    /\ HasPrefix(n, <<"6", "0", "1", "1">>)
    /\ AllDigits(SubSeq(n, 1, 16))

MatchDiners(n) ==
    /\ Len(n) = 14
    /\ AllDigits(n)
    /\ \/ /\ HasPrefix(n, <<"3", "0">>)
          /\ n[3] \in {"0", "1", "2", "3", "4", "5"}
       \/ HasPrefix(n, <<"3", "6">>)
       \/ HasPrefix(n, <<"3", "8">>)

ReMatch(card_type_re, n) ==
    CASE card_type_re = "visa"     -> MatchVisa(n)
      [] card_type_re = "amex"     -> MatchAmex(n)
      [] card_type_re = "mc"       -> MatchMc(n)
      [] card_type_re = "discover" -> MatchDiscover(n)
      [] card_type_re = "diners"   -> MatchDiners(n)

\* CreditCard.card_type: the first issuer whose pattern matches, else None.
card_type(card_number) ==
    IF \E i \in 1..Len(CARD_TYPES) : ReMatch(CARD_TYPES[i], card_number)
    THEN CARD_TYPES[CHOOSE i \in 1..Len(CARD_TYPES) :
                       /\ ReMatch(CARD_TYPES[i], card_number)
                       /\ \A j \in 1..(i - 1) :
                              ~ReMatch(CARD_TYPES[j], card_number)]
    ELSE "None"

\* The total validate() takes modulo 10:
\* sum(num[::-2] + map(lambda d: sum(divmod(d * 2, 10)), num[-2::-2]))
DoubleAndReduce(d) == ((d * 2) \div 10) + ((d * 2) % 10)

\* The total without the reduction of the doubled digits.
LuhnTotalNoReduce(num) ==
    LET doubled == StrideDown(num, 1)
    IN  SumSeq(StrideDown(num, 0)
               \o [i \in 1..Len(doubled) |-> doubled[i] * 2])

LuhnTotal(num) ==
    LET doubled == StrideDown(num, 1)
    IN  SumSeq(StrideDown(num, 0)
               \o [i \in 1..Len(doubled) |-> DoubleAndReduce(doubled[i])])

\* Leap years without the century rule.
IsLeapJulian(year) == year % 4 = 0

\* calendar.isleap(year)
IsLeap(year) == year % 4 = 0 /\ (year % 100 # 0 \/ year % 400 = 0)

\* calendar.mdays, January first
MDays == <<31, 28, 31, 30, 31, 30, 31, 31, 30, 31, 30, 31>>

\* calendar.monthrange(year, month)[1]
MonthLength(year, month) ==
    MDays[month] + (IF month = 2 /\ IsLeap(year) THEN 1 ELSE 0)

\* Whether CreditCard.expiration raises ValueError: int() of either string,
\* calendar.monthrange or datetime() rejects the value.
ExpirationRaises(exp_year, exp_month) ==
    \/ ~IntParses(exp_year)
    \/ ~IntParses(exp_month)
    \/ IntOf(exp_year) < 1
    \/ IntOf(exp_year) > 9999
    \/ IntOf(exp_month) < 1
    \/ IntOf(exp_month) > 12

\* CreditCard.expiration, where it does not raise.
expiration(exp_year, exp_month) ==
    <<IntOf(exp_year), IntOf(exp_month),
      MonthLength(IntOf(exp_year), IntOf(exp_month)), 23, 59, 59, 0>>

\* a > b on datetime objects
RECURSIVE LexGreater(_, _)
LexGreater(a, b) ==
    IF a = <<>> THEN FALSE
    ELSE IF Head(a) # Head(b) THEN Head(a) > Head(b)
    ELSE LexGreater(Tail(a), Tail(b))

After(a, b) == LexGreater(a, b)

AfterOrAt(a, b) == a = b \/ LexGreater(a, b)

\* re.match(r'^[\d+]{3,4}$', cvv): three or four characters, each a digit
\* or '+'; $ also matches before one trailing newline.
CvvChar(c) == IsDigit(c) \/ c = "+"

CvvBody(cvv) ==
    IF cvv # <<>> /\ cvv[Len(cvv)] = "\n"
    THEN SubSeq(cvv, 1, Len(cvv) - 1) ELSE cvv

CvvMatches(cvv) ==
    /\ Len(CvvBody(cvv)) \in {3, 4}
    /\ \A i \in 1..Len(CvvBody(cvv)) : CvvChar(CvvBody(cvv)[i])

\* The fields CreditCard.__init__ sets, before validate() runs.
NewCreditCard(a) ==
    [class       |-> "CreditCard",
     card_number |-> StripNonDigits(Str(a.card_number)),
     exp_year    |-> Str(a.exp_year),
     exp_month   |-> Str(a.exp_month),
     cvv         |-> Str(a.cvv)]

MsgNumber == "Credit card number is not valid."
MsgExpired == "Credit card is expired."
MsgCvv == "Credit card CVV is invalid format."

\* validate() with the CVV check moved before the expiration check.
CardValidateCvvFirst(c, t) ==
    IF ~AllDigits(c.card_number)
        THEN AuthorizeInvalidError(MsgNumber)
    ELSE IF LuhnTotal(MapInt(c.card_number)) % 10 # 0
        THEN AuthorizeInvalidError(MsgNumber)
    ELSE IF ~CvvMatches(c.cvv)
        THEN AuthorizeInvalidError(MsgCvv)
    ELSE IF ExpirationRaises(c.exp_year, c.exp_month)
        THEN ValueError
    ELSE IF After(t, expiration(c.exp_year, c.exp_month))
        THEN AuthorizeInvalidError(MsgExpired)
    ELSE IF card_type(c.card_number) = "None"
        THEN AuthorizeInvalidError(MsgNumber)
    ELSE Ok

\* CreditCard.validate() at clock reading t: the first check that fails.
CardValidate(c, t) ==
    IF ~AllDigits(c.card_number)
        THEN AuthorizeInvalidError(MsgNumber)
    ELSE IF LuhnTotal(MapInt(c.card_number)) % 10 # 0
        THEN AuthorizeInvalidError(MsgNumber)
    ELSE IF ExpirationRaises(c.exp_year, c.exp_month)
        THEN ValueError
    ELSE IF After(t, expiration(c.exp_year, c.exp_month))
        THEN AuthorizeInvalidError(MsgExpired)
    ELSE IF ~CvvMatches(c.cvv)
        THEN AuthorizeInvalidError(MsgCvv)
    ELSE IF card_type(c.card_number) = "None"
        THEN AuthorizeInvalidError(MsgNumber)
    ELSE Ok

\* '*' * n
RECURSIVE Stars(_)
Stars(n) == IF n <= 0 THEN <<>> ELSE <<"*">> \o Stars(n - 1)

\* s[-4:]
LastFour(s) == IF Len(s) <= 4 THEN s ELSE SubSeq(s, Len(s) - 3, Len(s))

\* safe_number with one star too few
SafeNumberShortMask(number) == Stars(Len(number) - 5) \o LastFour(number)

\* CreditCard.safe_number and BankAccount.safe_number:
\* mask = '*' * (len(number) - 4), then mask + number[-4:]
safe_number(number) == Stars(Len(number) - 4) \o LastFour(number)

---------------------------------------------------------------------------
(* BankAccount. *)

individual == <<"i", "n", "d", "i", "v", "i", "d", "u", "a", "l">>
business == <<"b", "u", "s", "i", "n", "e", "s", "s">>
checking == <<"c", "h", "e", "c", "k", "i", "n", "g">>
savings == <<"s", "a", "v", "i", "n", "g", "s">>
businessChecking == <<"b", "u", "s", "i", "n", "e", "s", "s", "C", "h", "e", "c", "k", "i", "n", "g">>
ABA == <<"A", "B", "A">>
IBAN == <<"I", "B", "A", "N">>
SWIFT == <<"S", "W", "I", "F", "T">>
ARC == <<"A", "R", "C">>
BOC == <<"B", "O", "C">>
CCD == <<"C", "C", "D">>
PPD == <<"P", "P", "D">>
TEL == <<"T", "E", "L">>
WEB == <<"W", "E", "B">>

CUSTOMER_TYPES == {individual, business}
ACCOUNT_TYPES == {checking, savings, businessChecking}
ROUTING_NUMBER_TYPES == {ABA, IBAN, SWIFT}
ECHECK_TYPES == {ARC, BOC, CCD, PPD, TEL, WEB}

\* The fields BankAccount.__init__ sets, before validate() runs.
NewBankAccount(a) ==
    [class               |-> "BankAccount",
     first_name          |-> a.first_name,
     last_name           |-> a.last_name,
     company             |-> a.company,
     bank_name           |-> a.bank_name,
     routing_number      |-> StripNonAlnum(Str(a.routing_number)),
     account_number      |-> StripNonDigits(Str(a.account_number)),
     customer_type       |-> a.customer_type,
     account_type        |-> a.account_type,
     routing_number_type |-> a.routing_number_type,
     echeck_type         |-> a.echeck_type]

\* "v is None or not v.strip()" for an attribute holding None or a str
IsBlank(v) == v.t = "None" \/ Strip(v.s) = <<>>

\* "s is None or not s.strip()" for an attribute that __init__ made a str
IsBlankStr(s) == Strip(s) = <<>>

\* "v not in TYPES" for an attribute holding a str
NotIn(v, types) == v.s \notin types

MsgFirstName == "First name on account is required."
MsgLastName == "Last name on account is required."
MsgCompany == "Company name is required."
MsgBankName == "Bank name is required."
MsgRoutingRequired == "Routing number is required."
MsgAccountRequired == "Account number is required."
MsgCustomerRequired == "Customer type is required."
MsgCustomerInvalid == "Customer type is not valid."
MsgAccountTypeRequired == "Bank account type is required."
MsgAccountTypeInvalid == "Bank account type is not valid."
MsgRoutingTypeRequired == "Routing number type is required."
MsgRoutingTypeInvalid == "Routing number is not valid."
MsgEcheckRequired == "eCheck type is required."
MsgEcheckInvalid == "eCheck type is not valid."
MsgAccountNumber == "Bank account number is not valid."
MsgAba == "Bank routing number is not valid."

\* The length check with the upper bound left out of the range.
AccountLengthBelow17(account_number) ==
    LET num == MapInt(account_number)
    IN  Len(num) >= 5 /\ Len(num) < 17

\* BankAccount._validate_account_number: whether it returns without raising.
AccountLengthOk(account_number) ==
    LET num == MapInt(account_number)
    IN  Len(num) >= 5 /\ Len(num) <= 17

\* The checksum with the weights 7 and 3 exchanged.
AbaChecksumSwapped(num) ==
    (3 * (num[1] + num[4] + num[7]) +
     7 * (num[2] + num[5] + num[8]) +
     9 * (num[3] + num[6])) % 10

\* The checksum BankAccount._validate_aba compares with num[8] (Python
\* indexes from 0, sequences here from 1).
AbaChecksum(num) ==
    (7 * (num[1] + num[4] + num[7]) +
     3 * (num[2] + num[5] + num[8]) +
     9 * (num[3] + num[6])) % 10

\* BankAccount._validate_aba: whether it returns without raising.
_validate_aba(routing_number) ==
    IF ~AllDigits(routing_number) THEN FALSE
    ELSE IF Len(routing_number) # 9 THEN FALSE
    ELSE LET num == MapInt(routing_number)
         IN  num[9] = AbaChecksum(num)

\* BankAccount.validate(): the first check that fails.
BankValidate(b) ==
    IF IsBlank(b.first_name) THEN AuthorizeInvalidError(MsgFirstName)
    ELSE IF IsBlank(b.last_name) THEN AuthorizeInvalidError(MsgLastName)
    ELSE IF b.customer_type = PyStr(business) /\ IsBlank(b.company)
        THEN AuthorizeInvalidError(MsgCompany)
    ELSE IF IsBlank(b.bank_name) THEN AuthorizeInvalidError(MsgBankName)
    ELSE IF IsBlankStr(b.routing_number)
        THEN AuthorizeInvalidError(MsgRoutingRequired)
    ELSE IF IsBlankStr(b.account_number)
        THEN AuthorizeInvalidError(MsgAccountRequired)
    ELSE IF IsBlank(b.customer_type)
        THEN AuthorizeInvalidError(MsgCustomerRequired)
    ELSE IF NotIn(b.customer_type, CUSTOMER_TYPES)
        THEN AuthorizeInvalidError(MsgCustomerInvalid)
    ELSE IF IsBlank(b.account_type)
        THEN AuthorizeInvalidError(MsgAccountTypeRequired)
    ELSE IF NotIn(b.account_type, ACCOUNT_TYPES)
        THEN AuthorizeInvalidError(MsgAccountTypeInvalid)
    ELSE IF IsBlank(b.routing_number_type)
        THEN AuthorizeInvalidError(MsgRoutingTypeRequired)
    ELSE IF NotIn(b.routing_number_type, ROUTING_NUMBER_TYPES)
        THEN AuthorizeInvalidError(MsgRoutingTypeInvalid)
    ELSE IF IsBlank(b.echeck_type)
        THEN AuthorizeInvalidError(MsgEcheckRequired)
    ELSE IF NotIn(b.echeck_type, ECHECK_TYPES)
        THEN AuthorizeInvalidError(MsgEcheckInvalid)
    ELSE IF ~AccountLengthOk(b.account_number)
        THEN AuthorizeInvalidError(MsgAccountNumber)
    ELSE IF ~_validate_aba(b.routing_number)
        THEN AuthorizeInvalidError(MsgAba)
    ELSE Ok

---------------------------------------------------------------------------
(* The clock. *)

NoTime == <<>>

\* The reading one second after t (t a whole second).
NextSecond(t) ==
    IF t[6] < 59 THEN <<t[1], t[2], t[3], t[4], t[5], t[6] + 1, 0>>
    ELSE IF t[5] < 59 THEN <<t[1], t[2], t[3], t[4], t[5] + 1, 0, 0>>
    ELSE IF t[4] < 23 THEN <<t[1], t[2], t[3], t[4] + 1, 0, 0, 0>>
    ELSE IF t[3] < MonthLength(t[1], t[2])
        THEN <<t[1], t[2], t[3] + 1, 0, 0, 0, 0>>
    ELSE IF t[2] < 12 THEN <<t[1], t[2] + 1, 1, 0, 0, 0, 0>>
    ELSE <<t[1] + 1, 1, 1, 0, 0, 0, 0>>

\* The clock moves in steps of half a second (datetime.now() carries
\* microseconds).
Advance(t) ==
    IF t[7] = 0 THEN [t EXCEPT ![7] = 500000]
    ELSE NextSecond([t EXCEPT ![7] = 0])

---------------------------------------------------------------------------
(* The callers' arguments the model draws from. *)

\* The clock reading of the callers that do not vary the expiration date.
Today == <<2024, 1, 31, 23, 59, 59, 0>>

\* YEAR of the tests: ten years ahead.
FutureYear == PyInt(0, Today[1] + 10)

\* CreditCard('4111111111111111', YEAR, 1, '911') of the tests
BaseCard ==
    [card_number |-> PyStr(<<"4", "1", "1", "1", "1", "1", "1", "1", "1", "1", "1", "1", "1", "1", "1", "1">>),
     exp_year    |-> FutureYear,
     exp_month   |-> PyInt(0, 1),
     cvv         |-> PyStr(<<"9", "1", "1">>)]

RECURSIVE Repeat(_, _)
Repeat(c, n) == IF n <= 0 THEN <<>> ELSE <<c>> \o Repeat(c, n - 1)

\* prefix, then fill characters, then last: length characters in all.
Filled(prefix, fill, length, last) ==
    prefix \o Repeat(fill, length - 1 - Len(prefix)) \o <<last>>

CardPrefixes ==
    {<<"4">>, <<"3", "7">>, <<"5", "1">>, <<"5", "5">>,
     <<"6", "0", "1", "1">>, <<"3", "0", "0">>, <<"3", "0", "5">>,
     <<"3", "6">>, <<"3", "8">>,
     <<"3", "4">>, <<"5", "0">>, <<"5", "6">>, <<"6", "0", "1", "2">>,
     <<"3", "0", "6">>, <<"3", "9">>, <<"9">>}

CardLengths == 12..18

TEST_CARD_NUMBERS ==
    {PyStr(<<"3", "7", "0", "0", "0", "0", "0", "0", "0", "0", "0", "0", "0", "0", "2">>),
     PyStr(<<"5", "5", "5", "5", "5", "5", "5", "5", "5", "5", "5", "5", "4", "4", "4", "4">>),
     PyStr(<<"5", "1", "0", "5", "1", "0", "5", "1", "0", "5", "1", "0", "5", "1", "0", "0">>),
     PyStr(<<"6", "0", "1", "1", "0", "0", "0", "0", "0", "0", "0", "0", "0", "0", "1", "2">>),
     PyStr(<<"4", "0", "0", "7", "0", "0", "0", "0", "0", "0", "0", "2", "7">>),
     PyStr(<<"4", "0", "1", "2", "8", "8", "8", "8", "1", "8", "8", "8", "8">>),
     PyStr(<<"3", "8", "0", "0", "0", "0", "0", "0", "0", "0", "0", "0", "0", "6">>)}

WideCardNumbers ==
    {PyStr(Filled(p, f, n, DigitChars[d])) :
        p \in CardPrefixes, f \in {"0", "7"}, n \in CardLengths, d \in 1..10}
    \cup TEST_CARD_NUMBERS

CoreCardNumbers ==
    {BaseCard.card_number,
     PyStr(<<"4", "1", "1", "1", "-", "1", "1", "1", "1", "-", "1", "1", "1", "1", "-", "1", "1", "1", "1">>),
     PyInt(4111111, 111111111),
     PyStr(<<"4", "1", "1", "1", "1", "1", "1", "1", "1", "1", "1", "1", "1", "1", "1", "2">>),
     PyStr(<<"6", "0", "1", "1", "0", "0", "0", "0", "0", "0", "0", "0", "0", "0", "0", "0", "1">>),
     PyStr(<<"9", "0", "0", "0", "0", "0", "0", "0", "0", "0", "0", "0", "0", "0", "0", "1">>),
     PyStr(<<>>),
     PyNone}

CoreCvvs ==
    {BaseCard.cvv, PyInt(0, 911), PyStr(<<"1", "2", "3", "4">>), PyStr(<<"1", "2">>),
     PyStr(<<"1", "2", "3", "4", "5">>), PyStr(<<"1", "2", "+">>), PyStr(<<"+", "+", "+", "+">>), PyStr(<<"i", "n", "c", "o", "r", "r", "e", "c", "t">>),
     PyStr(<<"9", "1", "1", "\n">>), PyStr(<<"9", "1", " ">>), PyStr(<<>>),
     PyNone}

\* <<exp_year, exp_month>>: in the future, this month, last month, then
\* values int(), calendar.monthrange or datetime() refuse.
CoreExpiries ==
    {<<FutureYear, PyInt(0, 1)>>,
     <<PyStr(<<"2", "0", "3", "4">>), PyStr(<<"0", "1">>)>>,
     <<PyInt(0, Today[1]), PyInt(0, Today[2])>>,
     <<PyInt(0, Today[1] - 1), PyInt(0, 12)>>,
     <<FutureYear, PyInt(0, 13)>>,
     <<FutureYear, PyInt(0, 0)>>,
     <<FutureYear, PyStr(<<"a", "b">>)>>,
     <<PyInt(0, 0), PyInt(0, 1)>>,
     <<PyInt(0, 10000), PyInt(0, 1)>>,
     <<PyNone, PyNone>>}

CardArgs(n, e, c) ==
    [card_number |-> n, exp_year |-> e[1], exp_month |-> e[2], cvv |-> c]

CardScenarios ==
    {[now |-> Today, kind |-> "card", args |-> CardArgs(n, e, c)] :
        n \in CoreCardNumbers, e \in CoreExpiries, c \in CoreCvvs}
    \cup
    {[now |-> Today, kind |-> "card",
      args |-> [BaseCard EXCEPT !.card_number = n]] : n \in WideCardNumbers}

\* Years of the expiration dates: a common year, a leap year, and the
\* century years 2000 (leap) and 2100 (not leap).
ExpiryYears == {2000, 2023, 2024, 2100}

\* The last second of the days 28 to 31 of a month, and its first second.
ClockReadings ==
    {<<y, m, d, 23, 59, 59, 0>> :
        y \in ExpiryYears, m \in 1..12, d \in 28..31}
    \cup {<<y, m, 1, 0, 0, 0, 0>> : y \in ExpiryYears, m \in 1..12}

IsDate(t) == t[3] <= MonthLength(t[1], t[2])

\* The month k months after month m of year y (k in -1..1).
MonthPlus(y, m, k) ==
    IF m + k < 1 THEN <<PyInt(0, y - 1), PyInt(0, 12)>>
    ELSE IF m + k > 12 THEN <<PyInt(0, y + 1), PyInt(0, 1)>>
    ELSE <<PyInt(0, y), PyInt(0, m + k)>>

\* A card expiring last month, this month or next month.
ExpiryScenarios ==
    {[now |-> t, kind |-> "card",
      args |-> CardArgs(BaseCard.card_number, MonthPlus(t[1], t[2], k),
                        BaseCard.cvv)] :
        t \in {u \in ClockReadings : IsDate(u)}, k \in -1..1}

\* TEST_BANK_ACCOUNT of the tests
BaseAccount ==
    [first_name          |-> PyStr(<<"E", "n", "o", "o", "n">>),
     last_name           |-> PyStr(<<"E", "r", "e", "h", "w", "o", "n">>),
     company             |-> PyStr(<<>>),
     bank_name           |-> PyStr(<<"K", "n", "a", "b", " ", "B", "a", "n", "k", ",", " ", "N", "L", "C">>),
     routing_number      |-> PyInt(0, 211073473),
     account_number      |-> PyInt(12, 341234123),
     customer_type       |-> PyStr(individual),
     account_type        |-> PyStr(checking),
     routing_number_type |-> PyStr(ABA),
     echeck_type         |-> PyStr(WEB)]

BankFields == DOMAIN BaseAccount

\* The other values each field takes, alone or together with other fields.
BankVariants ==
    [first_name          |-> <<PyNone, PyStr(<<>>), PyStr(<<" ">>)>>,
     last_name           |-> <<PyNone, PyStr(<<>>), PyStr(<<" ", "\t">>)>>,
     company             |-> <<PyNone, PyStr(<<" ">>), PyStr(<<"S", "e", "a", "t", "e", "c", " ", "A", "s", "t", "r", "o", "n", "o", "m", "y">>)>>,
     bank_name           |-> <<PyNone, PyStr(<<>>), PyStr(<<" ">>)>>,
     routing_number      |-> <<PyNone, PyStr(<<>>), PyStr(<<"-", " ">>),
                               PyInt(0, 123456789), PyInt(0, 12345678),
                               PyStr(<<"1", "2", "3", "4", "5", "6", "7", "8", "9", "0", "X">>)>>,
     account_number      |-> <<PyNone, PyStr(<<>>), PyStr(<<"1", "2", "3", "4">>),
                               PyInt(0, 1234), PyInt(123456789, 12345678)>>,
     customer_type       |-> <<PyNone, PyStr(<<>>), PyStr(<<"X">>),
                               PyStr(business)>>,
     account_type        |-> <<PyNone, PyStr(<<>>), PyStr(<<"X">>),
                               PyStr(savings), PyStr(businessChecking)>>,
     routing_number_type |-> <<PyNone, PyStr(<<" ">>), PyStr(<<"X">>),
                               PyStr(IBAN), PyStr(SWIFT)>>,
     echeck_type         |-> <<PyNone, PyStr(<<>>), PyStr(<<"X">>),
                               PyStr(ARC), PyStr(BOC), PyStr(CCD),
                               PyStr(PPD), PyStr(TEL)>>]

\* BaseAccount with the fields of D replaced as pick says.
Deviate(D, pick) ==
    [f \in BankFields |->
        IF f \in D THEN BankVariants[f][pick[f]] ELSE BaseAccount[f]]

CoreAccounts ==
    UNION {{Deviate(D, pick) :
               pick \in {q \in [D -> 1..8] :
                            \A f \in D : q[f] <= Len(BankVariants[f])}} :
           D \in {E \in SUBSET BankFields : Cardinality(E) <= MaxDeviations}}

\* Valid routing numbers of the tests.
TestRoutingNumbers ==
    {<<"2", "1", "1", "0", "7", "3", "4", "7", "3">>, <<"0", "1", "1", "0", "9", "9", "6", "6", "0">>, <<"1", "1", "1", "0", "5", "0", "2", "9", "5">>}

\* Each of them with one digit replaced; then other lengths and formats.
WideRoutingNumbers ==
    {PyStr([r EXCEPT ![i] = DigitChars[d]]) :
        r \in TestRoutingNumbers, i \in 1..9, d \in 1..10}
    \cup {PyStr(<<"0", "1", "1", "0", "-", "9", "9", "6", "6", "-", "0">>), PyInt(0, 111050295), PyInt(0, 11099660),
          PyStr(<<"2", "1", "1", "0", "7", "3", "4", "7">>), PyStr(<<"2", "1", "1", "0", "7", "3", "4", "7", "3", "0">>),
          PyStr(<<"2", "1", "1", "0", "7", "3", "4", "7", "X">>), PyStr(<<"A", "B", "C", "D", "E", "F", "G", "H", "I">>)}

AccountDigits == <<"1", "2", "3", "4", "5", "6", "7", "8", "9", "0", "1", "2", "3", "4", "5", "6", "7", "8", "9">>

\* The first n digits of AccountDigits as an int.
AsInt(digits) ==
    IF Len(digits) <= 9 THEN PyInt(0, DigitsValue(digits))
    ELSE PyInt(DigitsValue(SubSeq(digits, 1, Len(digits) - 9)),
               DigitsValue(SubSeq(digits, Len(digits) - 8, Len(digits))))

\* Account numbers of 0 to 19 digits: as a str, as an int, and as a str
\* with separators and letters between the digits.
WideAccountNumbers ==
    {PyStr(SubSeq(AccountDigits, 1, n)) : n \in 0..19}
    \cup {AsInt(SubSeq(AccountDigits, 1, n)) : n \in 1..18}
    \cup {PyStr(<<"#">> \o SubSeq(AccountDigits, 1, n) \o <<"-", "x">>
                \o SubSeq(AccountDigits, 1, k)) : n \in 0..17, k \in 0..2}

BankScenarios ==
    {[now |-> Today, kind |-> "bank", args |-> a] : a \in CoreAccounts}
    \cup
    {[now |-> Today, kind |-> "bank",
      args |-> [BaseAccount EXCEPT !.routing_number = r, !.routing_number_type = t]] :
        r \in WideRoutingNumbers, t \in {PyStr(ABA), PyStr(IBAN)}}
    \cup
    {[now |-> Today, kind |-> "bank",
      args |-> [BaseAccount EXCEPT !.account_number = n]] :
        n \in WideAccountNumbers}

Scenarios == CardScenarios \cup ExpiryScenarios \cup BankScenarios

---------------------------------------------------------------------------
(* The state machine. *)

Init ==
    /\ \E sc \in Scenarios :
          /\ now = sc.now
          /\ kind = sc.kind
          /\ args = sc.args
    /\ ticks = 0
    /\ obj = NoObj
    /\ result = Pending
    /\ call = NoCall
    /\ at = NoTime

\* Time passes.
Tick ==
    /\ ticks < MaxTicks
    /\ now' = Advance(now)
    /\ ticks' = ticks + 1
    /\ UNCHANGED <<kind, args, obj, result, call, at>>

\* CreditCard(card_number, exp_year, exp_month, cvv): __init__ sets the
\* fields and calls validate(); the caller gets the instance only when
\* validate() does not raise.
ConstructCreditCard ==
    /\ kind = "card"
    /\ result = Pending
    /\ LET c == NewCreditCard(args)
           r == CardValidate(c, now)
       IN  /\ result' = r
           /\ obj' = IF r = Ok THEN c ELSE NoObj
    /\ at' = now
    /\ UNCHANGED <<now, ticks, kind, args, call>>

\* BankAccount(**args)
ConstructBankAccount ==
    /\ kind = "bank"
    /\ result = Pending
    /\ LET b == NewBankAccount(args)
           r == BankValidate(b)
       IN  /\ result' = r
           /\ obj' = IF r = Ok THEN b ELSE NoObj
    /\ at' = now
    /\ UNCHANGED <<now, ticks, kind, args, call>>

\* credit_card.validate() on an instance the caller holds
CardRevalidate ==
    /\ obj.class = "CreditCard"
    /\ call' = [op |-> "validate", outcome |-> CardValidate(obj, now),
                value |-> <<>>]
    /\ UNCHANGED <<now, ticks, kind, args, obj, result, at>>

\* bank_account.validate() on an instance the caller holds
BankRevalidate ==
    /\ obj.class = "BankAccount"
    /\ call' = [op |-> "validate", outcome |-> BankValidate(obj),
                value |-> <<>>]
    /\ UNCHANGED <<now, ticks, kind, args, obj, result, at>>

\* repr(credit_card): '<CreditCard {0.card_type} {0.safe_number}>'
CardRepr ==
    /\ obj.class = "CreditCard"
    /\ call' = [op |-> "repr", outcome |-> Ok,
                value |-> <<"CreditCard", card_type(obj.card_number),
                            safe_number(obj.card_number)>>]
    /\ UNCHANGED <<now, ticks, kind, args, obj, result, at>>

\* repr(bank_account):
\* '<BankAccount {0.account_type} {0.routing_number} {0.safe_number}>'
BankRepr ==
    /\ obj.class = "BankAccount"
    /\ call' = [op |-> "repr", outcome |-> Ok,
                value |-> <<"BankAccount", obj.account_type.s,
                            obj.routing_number,
                            safe_number(obj.account_number)>>]
    /\ UNCHANGED <<now, ticks, kind, args, obj, result, at>>

Next ==
    \/ Tick
    \/ ConstructCreditCard
    \/ ConstructBankAccount
    \/ CardRevalidate
    \/ BankRevalidate
    \/ CardRepr
    \/ BankRepr

Spec == Init /\ [][Next]_vars

---------------------------------------------------------------------------
(* What the claims speak of, stated without the operators of validate(). *)

CardState == kind = "card" /\ result # Pending

BankState == kind = "bank" /\ result # Pending

\* The normalized number, and the strings __init__ keeps, of the card asked for.
ArgNumber == StripNonDigits(Str(args.card_number))
ArgCvv == Str(args.cvv)
ArgYear == Str(args.exp_year)
ArgMonth == Str(args.exp_month)

\* The Luhn total: counting from the rightmost digit (k = 0), the digits at
\* odd k are doubled and, from 10 on, reduced by 9 (the sum of the two
\* digits); the digits at even k count as they are.
RECURSIVE ClaimLuhnFrom(_, _)
ClaimLuhnFrom(n, k) ==
    IF k >= Len(n) THEN 0
    ELSE LET d == DigitVal(n[Len(n) - k])
         IN  (IF k % 2 = 0 THEN d
              ELSE IF 2 * d > 9 THEN 2 * d - 9 ELSE 2 * d)
             + ClaimLuhnFrom(n, k + 1)

ClaimLuhnValid(n) == ClaimLuhnFrom(n, 0) % 10 = 0

\* Exactly 3 or 4 decimal digits and nothing else.
ClaimCvvWellFormed(cvv) == Len(cvv) \in {3, 4} /\ AllDigits(cvv)

\* The issuer table: prefix and length of each issuer.
ClaimIssuer(n) ==
    CASE HasPrefix(n, <<"4">>) /\ Len(n) \in {13, 16} -> "visa"
      [] HasPrefix(n, <<"3", "7">>) /\ Len(n) = 15 -> "amex"
      [] (\E d \in 1..5 : HasPrefix(n, <<"5", DigitChars[d + 1]>>))
         /\ Len(n) = 16 -> "mc"
      [] HasPrefix(n, <<"6", "0", "1", "1">>) /\ Len(n) = 16 -> "discover"
      [] (\/ \E d \in 0..5 : HasPrefix(n, <<"3", "0", DigitChars[d + 1]>>)
          \/ HasPrefix(n, <<"3", "6">>)
          \/ HasPrefix(n, <<"3", "8">>))
         /\ Len(n) = 14 -> "diners"
      [] OTHER -> "None"

\* The expiration date names a month of a year datetime can hold.
ExpiryWellFormed ==
    /\ IntParses(ArgYear)
    /\ IntParses(ArgMonth)
    /\ IntOf(ArgYear) \in 1..9999
    /\ IntOf(ArgMonth) \in 1..12

\* Days of a month by the calendar: 30 days has September, ...
ClaimLeapYear(y) == (y % 4 = 0 /\ y % 100 # 0) \/ y % 400 = 0

ClaimLastDay(y, m) ==
    IF m \in {4, 6, 9, 11} THEN 30
    ELSE IF m = 2 THEN (IF ClaimLeapYear(y) THEN 29 ELSE 28)
    ELSE 31

\* 23:59:59 on the last day of the month, and the second after it.
ClaimExpiration(y, m) == <<y, m, ClaimLastDay(y, m), 23, 59, 59, 0>>

ClaimNextSecond(y, m) ==
    IF m = 12 THEN <<y + 1, 1, 1, 0, 0, 0, 0>>
    ELSE <<y, m + 1, 1, 0, 0, 0, 0>>

\* The card asked for had not expired when __init__ ran.
Unexpired ==
    /\ ExpiryWellFormed
    /\ ~After(at, ClaimExpiration(IntOf(ArgYear), IntOf(ArgMonth)))

---------------------------------------------------------------------------
(* C1 *)

\* C1: a card number that matches an issuer pattern, given with an
\* unexpired date and a CVV of 3 or 4 digits, is accepted when its Luhn
\* total is divisible by 10 and refused with 'number is not valid' when
\* it is not.
C1_LuhnDecides ==
    (/\ CardState
     /\ card_type(ArgNumber) # "None"
     /\ Unexpired
     /\ ClaimCvvWellFormed(ArgCvv))
    => /\ ClaimLuhnValid(ArgNumber) => result = Ok
       /\ ~ClaimLuhnValid(ArgNumber)
            => result = AuthorizeInvalidError(MsgNumber)

\* An accepted number with doubled digits above 4, which the reduction
\* changes.
C1_Witness ==
    /\ CardState
    /\ Unexpired
    /\ ClaimCvvWellFormed(ArgCvv)
    /\ HasPrefix(ArgNumber, <<"5", "5", "5", "5">>)
    /\ ClaimLuhnValid(ArgNumber)
    /\ result = Ok

---------------------------------------------------------------------------
(* C2 *)

\* C2: card_type is the issuer the table gives for the number (none when
\* no row matches), and every accepted number is of a length some row
\* allows and of an issuer of the table.
C2_IssuerTable ==
    CardState
    => /\ card_type(ArgNumber) = ClaimIssuer(ArgNumber)
       /\ result = Ok => /\ ClaimIssuer(ArgNumber) # "None"
                         /\ Len(ArgNumber) \in {13, 14, 15, 16}

---------------------------------------------------------------------------
(* C3 *)

\* C3: for a Luhn-valid, unexpired number of a recognized issuer, the card
\* is accepted only with a cvv of exactly 3 or 4 digits; any other cvv is
\* refused with the CVV-format error.
C3_CvvDigitsOnly ==
    (/\ CardState
     /\ ClaimLuhnValid(ArgNumber)
     /\ card_type(ArgNumber) # "None"
     /\ Unexpired)
    => /\ result = Ok => ClaimCvvWellFormed(ArgCvv)
       /\ ~ClaimCvvWellFormed(ArgCvv)
            => result = AuthorizeInvalidError(MsgCvv)

---------------------------------------------------------------------------
(* C4 *)

\* C4: for a year 1..9999 and a month 1..12, expiration is 23:59:59 on the
\* last calendar day of the month; a card with a valid number and CVV is
\* accepted when __init__ runs at or before that instant and refused as
\* expired when it runs at the next second or later.
C4_ExpirationBoundary ==
    (/\ CardState
     /\ ExpiryWellFormed
     /\ ClaimLuhnValid(ArgNumber)
     /\ card_type(ArgNumber) # "None"
     /\ ClaimCvvWellFormed(ArgCvv))
    => LET y == IntOf(ArgYear)
           m == IntOf(ArgMonth)
       IN  /\ expiration(ArgYear, ArgMonth) = ClaimExpiration(y, m)
           /\ ~After(at, ClaimExpiration(y, m)) => result = Ok
           /\ AfterOrAt(at, ClaimNextSecond(y, m))
                => result = AuthorizeInvalidError(MsgExpired)

\* February 2100 (not a leap year): refused at 0:00:00 on 1 March.
C4_Witness ==
    /\ CardState
    /\ ExpiryWellFormed
    /\ IntOf(ArgYear) = 2100
    /\ IntOf(ArgMonth) = 2
    /\ at = <<2100, 3, 1, 0, 0, 0, 0>>
    /\ result = AuthorizeInvalidError(MsgExpired)

---------------------------------------------------------------------------
(* The bank account asked for, stated without the operators of validate(). *)

ArgRouting == StripNonAlnum(Str(args.routing_number))
ArgAccount == StripNonDigits(Str(args.account_number))

\* A str with a character that is not whitespace.
ClaimPresent(v) == v.t = "str" /\ \E i \in 1..Len(v.s) : ~IsSpace(v.s[i])

ClaimOneOf(v, types) == v.t = "str" /\ v.s \in types

ClaimNamesOk ==
    /\ ClaimPresent(args.first_name)
    /\ ClaimPresent(args.last_name)
    /\ args.customer_type = PyStr(business) => ClaimPresent(args.company)
    /\ ClaimPresent(args.bank_name)

ClaimEnumsOk ==
    /\ ClaimOneOf(args.customer_type, CUSTOMER_TYPES)
    /\ ClaimOneOf(args.account_type, ACCOUNT_TYPES)
    /\ ClaimOneOf(args.routing_number_type, ROUTING_NUMBER_TYPES)
    /\ ClaimOneOf(args.echeck_type, ECHECK_TYPES)

\* (7*(d0+d3+d6) + 3*(d1+d4+d7) + 9*(d2+d5)) mod 10 = d8 for nine digits
ClaimAbaOk(r) ==
    /\ Len(r) = 9
    /\ AllDigits(r)
    /\ LET d(i) == DigitVal(r[i + 1])
       IN  (7 * (d(0) + d(3) + d(6)) + 3 * (d(1) + d(4) + d(7))
            + 9 * (d(2) + d(5))) % 10 = d(8)

\* How many decimal digits a natural number below 10^9 has.
ClaimWidth(n) ==
    IF n < 10 THEN 1 ELSE IF n < 100 THEN 2 ELSE IF n < 1000 THEN 3
    ELSE IF n < 10000 THEN 4 ELSE IF n < 100000 THEN 5
    ELSE IF n < 1000000 THEN 6 ELSE IF n < 10000000 THEN 7
    ELSE IF n < 100000000 THEN 8 ELSE 9

\* How many digits an argument has: those of an int, the digit characters
\* of a str.
ClaimDigitCount(v) ==
    CASE v.t = "int" -> IF v.hi = 0 THEN ClaimWidth(v.lo)
                        ELSE ClaimWidth(v.hi) + 9
      [] v.t = "str" -> Cardinality({i \in 1..Len(v.s) : IsDigit(v.s[i])})
      [] OTHER -> 0

\* The digits of a str, in their order.
RECURSIVE ClaimDigitsOf(_)
ClaimDigitsOf(s) ==
    IF s = <<>> THEN <<>>
    ELSE (IF IsDigit(Head(s)) THEN <<Head(s)>> ELSE <<>>)
         \o ClaimDigitsOf(Tail(s))

\* stored is the digit-only form of the argument v.
ClaimDigitOnlyForm(stored, v) ==
    /\ AllDigits(stored)
    /\ Len(stored) = ClaimDigitCount(v)
    /\ v.t = "str" => stored = ClaimDigitsOf(v.s)
    /\ v.t = "int" =>
         IF Len(stored) <= 9 THEN DigitsValue(stored) = v.lo
         ELSE /\ DigitsValue(SubSeq(stored, 1, Len(stored) - 9)) = v.hi
              /\ DigitsValue(SubSeq(stored, Len(stored) - 8, Len(stored)))
                   = v.lo

---------------------------------------------------------------------------
(* C5 *)

\* C5: with every other field valid, a bank account is accepted exactly
\* when its normalized routing number is nine digits d0..d8 with
\* (7*(d0+d3+d6) + 3*(d1+d4+d7) + 9*(d2+d5)) mod 10 = d8; any other routing
\* number is refused with the invalid-input error.
C5_AbaDecides ==
    (/\ BankState
     /\ ClaimNamesOk
     /\ ClaimEnumsOk
     /\ Len(ArgAccount) \in 5..17)
    => /\ result = Ok <=> ClaimAbaOk(ArgRouting)
       /\ result # Ok => /\ result.status = "raised"
                         /\ result.exc = "AuthorizeInvalidError"

\* Nine digits whose checksum differs from the last one: refused.
C5_Witness ==
    /\ BankState
    /\ ClaimNamesOk
    /\ ClaimEnumsOk
    /\ Len(ArgAccount) \in 5..17
    /\ Len(ArgRouting) = 9
    /\ AllDigits(ArgRouting)
    /\ ~ClaimAbaOk(ArgRouting)
    /\ result = AuthorizeInvalidError(MsgAba)

---------------------------------------------------------------------------
(* C6 *)

\* C6: a CreditCard that exists satisfies every construction rule in every
\* later state: a digit-only, Luhn-valid number of an issuer of the table,
\* a CVV of 3 or 4 digits, and an expiration that has not passed.
C6_AlwaysValid ==
    obj.class = "CreditCard"
    => /\ AllDigits(obj.card_number)
       /\ ClaimLuhnValid(obj.card_number)
       /\ ClaimIssuer(obj.card_number) # "None"
       /\ ClaimCvvWellFormed(obj.cvv)
       /\ IntParses(obj.exp_year) /\ IntParses(obj.exp_month)
       /\ ~After(now, ClaimExpiration(IntOf(obj.exp_year),
                                      IntOf(obj.exp_month)))

---------------------------------------------------------------------------
(* C7 *)

\* C7: whenever CreditCard or BankAccount construction does not succeed,
\* what is raised is an AuthorizeInvalidError.
C7_SingleErrorKind ==
    result.status = "raised" => result.exc = "AuthorizeInvalidError"

---------------------------------------------------------------------------
(* C8 *)

\* The number safe_number masks: card_number or account_number.
ObjNumber ==
    IF obj.class = "CreditCard" THEN obj.card_number ELSE obj.account_number

\* C8: for every instance that exists, safe_number is as long as the
\* normalized number, ends with its last 4 digits, and is '*' before them.
C8_SafeNumberMask ==
    obj # NoObj
    => LET n  == ObjNumber
           sn == safe_number(n)
       IN  /\ Len(sn) = Len(n)
           /\ \A i \in 1..Len(n) :
                 sn[i] = IF i > Len(n) - 4 THEN n[i] ELSE "*"

\* repr(bank_account) of a 17-digit account shows 13 stars and 4 digits.
C8_Witness ==
    /\ obj.class = "BankAccount"
    /\ Len(obj.account_number) = 17
    /\ call.op = "repr"
    /\ Len(call.value[4]) = 17
    /\ call.value[4][13] = "*"
    /\ call.value[4][14] = obj.account_number[14]

---------------------------------------------------------------------------
(* C9 *)

---------------------------------------------------------------------------
(* C10 *)

\* The rule a message of BankAccount.validate() names, 1 to 12.
ClaimRuleOf(msg) ==
    CASE msg = MsgFirstName -> 1
      [] msg = MsgLastName -> 2
      [] msg = MsgCompany -> 3
      [] msg = MsgBankName -> 4
      [] msg = MsgRoutingRequired -> 5
      [] msg = MsgAccountRequired -> 6
      [] msg \in {MsgCustomerRequired, MsgCustomerInvalid} -> 7
      [] msg \in {MsgAccountTypeRequired, MsgAccountTypeInvalid} -> 8
      [] msg \in {MsgRoutingTypeRequired, MsgRoutingTypeInvalid} -> 9
      [] msg \in {MsgEcheckRequired, MsgEcheckInvalid} -> 10
      [] msg = MsgAccountNumber -> 11
      [] msg = MsgAba -> 12
      [] OTHER -> 0

\* Whether the arguments violate rule k.
ClaimViolates(k) ==
    CASE k = 1 -> ~ClaimPresent(args.first_name)
      [] k = 2 -> ~ClaimPresent(args.last_name)
      [] k = 3 -> /\ args.customer_type = PyStr(business)
                  /\ ~ClaimPresent(args.company)
      [] k = 4 -> ~ClaimPresent(args.bank_name)
      [] k = 5 -> args.routing_number = PyNone \/ ArgRouting = <<>>
      [] k = 6 -> args.account_number = PyNone \/ ArgAccount = <<>>
      [] k = 7 -> ~ClaimOneOf(args.customer_type, CUSTOMER_TYPES)
      [] k = 8 -> ~ClaimOneOf(args.account_type, ACCOUNT_TYPES)
      [] k = 9 -> ~ClaimOneOf(args.routing_number_type, ROUTING_NUMBER_TYPES)
      [] k = 10 -> ~ClaimOneOf(args.echeck_type, ECHECK_TYPES)
      [] k = 11 -> Len(ArgAccount) \notin 5..17
      [] k = 12 -> ~ClaimAbaOk(ArgRouting)

\* The first rule violated, 0 when none is.
ClaimFirstViolated ==
    IF \E k \in 1..12 : ClaimViolates(k)
    THEN CHOOSE k \in 1..12 :
            ClaimViolates(k) /\ \A j \in 1..(k - 1) : ~ClaimViolates(j)
    ELSE 0

\* C10: BankAccount construction succeeds exactly when none of the twelve
\* rules is violated, and otherwise raises the error of the first violated
\* rule; an absent routing number violates rule 5.
C10_FirstViolatedRule ==
    BankState
    => IF ClaimFirstViolated = 0 THEN result = Ok
       ELSE /\ result.status = "raised"
            /\ result.exc = "AuthorizeInvalidError"
            /\ ClaimRuleOf(result.msg) = ClaimFirstViolated

---------------------------------------------------------------------------
(* C11 *)

\* The CVV format check as validate() applies it: 3 or 4 characters, each a
\* digit or '+', with at most one newline after them (C3 is about how this
\* differs from 3 or 4 digits).
ClaimCvvGate(cvv) ==
    LET body == IF cvv # <<>> /\ cvv[Len(cvv)] = "\n"
                THEN SubSeq(cvv, 1, Len(cvv) - 1) ELSE cvv
    IN  /\ Len(body) \in {3, 4}
        /\ \A i \in 1..Len(body) : IsDigit(body[i]) \/ body[i] = "+"

\* What the expiration step ends with when it does not pass: the expired
\* error for a past date, the ValueError of C7 for a date that is none.
ClaimExpiryFailure ==
    IF ExpiryWellFormed THEN AuthorizeInvalidError(MsgExpired) ELSE ValueError

\* The outcome of four hard gates in the order Luhn, expiration, CVV
\* format, issuer, when the Luhn gate fails as luhnFails says.
ClaimGates(luhnFails) ==
    IF luhnFails THEN AuthorizeInvalidError(MsgNumber)
    ELSE IF ~Unexpired THEN ClaimExpiryFailure
    ELSE IF ~ClaimCvvGate(ArgCvv) THEN AuthorizeInvalidError(MsgCvv)
    ELSE IF card_type(ArgNumber) = "None"
        THEN AuthorizeInvalidError(MsgNumber)
    ELSE Ok

\* C11 as stated: the gates apply in the order Luhn, expiration, CVV format,
\* issuer and only the first failure is reported, a number that is empty
\* after normalization failing at the Luhn gate: with a past expiration
\* date or a malformed CVV it is still reported as an invalid number.
\* (An expiration date that is no date is the case of C7, left out here.)
C11_EmptyFailsLuhn ==
    CardState
    => IF ArgNumber = <<>>
       THEN ExpiryWellFormed => result = AuthorizeInvalidError(MsgNumber)
       ELSE result = ClaimGates(~ClaimLuhnValid(ArgNumber))

\* C11 as amended: the gates apply in that order and only the first failure
\* is reported, but an empty number passes the Luhn gate (its total is 0):
\* it is refused by the expiration or the CVV gate when one of them fails,
\* and as an invalid number, by the issuer gate, only when both pass.
C11_GateOrder ==
    CardState
    => /\ result = ClaimGates(~ClaimLuhnValid(ArgNumber))
       /\ ArgNumber = <<>> =>
             /\ ClaimLuhnValid(ArgNumber)
             /\ result # Ok
             /\ result = AuthorizeInvalidError(MsgNumber)
                  <=> (Unexpired /\ ClaimCvvGate(ArgCvv))

\* An empty number with last month's expiration date and a malformed CVV is
\* reported as expired.
C11_Witness ==
    /\ CardState
    /\ ArgNumber = <<>>
    /\ ExpiryWellFormed
    /\ ~Unexpired
    /\ ~ClaimCvvGate(ArgCvv)
    /\ result = AuthorizeInvalidError(MsgExpired)

=============================================================================
